---- MODULE Spec2Model ----
(***************************************************************************)
(* Model of IFlowSDKClient (src/src/client.ts): the session manager that   *)
(* shares one backend connection among all chat / chatStream calls, paces  *)
(* them (checkRateLimit) and rotates the session (checkSessionRotation).   *)
(* The POST handlers of src/src/index.ts are modelled by what they do to    *)
(* the request (validation) and to the response (written, ended).          *)
(*                                                                         *)
(* JavaScript runs each continuation to its next await without             *)
(* interleaving, so one action of the model is one event (a call arriving, *)
(* a timer firing, a backend promise settling) together with the           *)
(* synchronous code that runs up to the next suspension point.  A caller's *)
(* pc names what the caller is suspended on.                               *)
(*                                                                         *)
(* Time is counted in abstract ticks and the thresholds of the source are  *)
(* scaled down, keeping their order:                                       *)
(*   300..1500 ms spacing -> 1..2      25 per minute    -> 2               *)
(*   1000..5000 ms jitter -> 1..2      60000 ms window  -> 3               *)
(*   2000..5000 ms cooldown -> 2..3    50 per session   -> 3               *)
(*   30 min session age   -> 5        1000 ms per second -> 2              *)
(*                                                                         *)
(* The backend SDK (IFlowClient) is not part of the repository.  Its       *)
(* objects are modelled by their life cycle only; where its timing is not  *)
(* fixed by the repository (whether isConnected() is already false while   *)
(* disconnect() is pending, what disconnect() does to an object that is    *)
(* still connecting) the model takes every outcome.                        *)
(***************************************************************************)
EXTENDS Integers, Sequences, FiniteSets, TLC

\* ---- thresholds of the source (scaled, see above)
MIN_REQUEST_INTERVAL == 1
MAX_REQUEST_INTERVAL == 2
MAX_REQUESTS_PER_MINUTE == 2
MAX_REQUESTS_PER_SESSION == 3
MAX_SESSION_AGE_MS == 5
WINDOW_MS == 3
JITTER_MIN == 1
JITTER_MAX == 2
COOLDOWN_MIN == 2
COOLDOWN_MAX == 3
MS_PER_SEC == 2

\* ---- bounds of the model
MaxCalls == 2          \* calls each of the two concurrent callers makes
MaxTime == 4           \* ticks the clock may advance
MaxConns == 4          \* IFlowClient objects that may be constructed
MaxDisconnects == 1    \* external disconnect() calls
MaxFaults == 1         \* backend operations that fail of their own accord
MaxMessages == 3       \* backend messages of one response stream
MaxStats == 2          \* getStats() calls
MaxTurns == 2          \* messages of one chat request

\* Date.now() at start-up: far from 0, the initial lastRequestTime
Epoch == MAX_REQUEST_INTERVAL

Callers == 1..(MAX_REQUESTS_PER_SESSION + 1)
Conns == 1..MaxConns

VARIABLES
  cl,                 \* per caller: pc, timer, locals, outcome, calls left, the
                      \* request and response it serves, the model it asks for,
                      \* and (history) its place in the dispatch order until it sends
  client,             \* this.client: 0 (null) or an IFlowClient object
  connecting,         \* this.connecting: 0 (null) or the attempt in flight
  lastRequestTime, requestCount, sessionCreateTime, sessionIdCounter,
  requestTimestamps,  \* the ledger
  conn,               \* SDK state of each IFlowClient object
  att,                \* position of the connect() coroutine of each object
  nConn,              \* objects constructed so far
  configured,         \* the model most recently set on each object's backend
  now, horizon,       \* the clock, and how far it may run
  sd,                 \* the external disconnect() call, and (history) what
                      \* the latest one found in the slot
  faults,             \* backend failures still to come
  hist,               \* history: the dispatch times of the window ending at the latest one
  served,             \* history: prompts sent on each object while it lives
  sinceRotation,      \* history: dispatches since the last rotation
  rotLast,            \* history: what the last rotation saw, and when its
                      \* teardown completed (0: not yet)
  input,              \* the argument of the function a specification applies
  output,             \* what the function has returned or yielded so far
  stats               \* the last value getStats() returned, and when

mgr == <<client, connecting, lastRequestTime, requestCount, sessionCreateTime,
         sessionIdCounter, requestTimestamps>>
sdk == <<conn, att, nConn, configured>>
ghost == <<hist, served, sinceRotation, rotLast>>
env == <<now, horizon, sd, faults>>
obs == <<input, output, stats>>
vars == <<cl, mgr, sdk, env, ghost, obs>>

Live == {"connected", "closingUp", "closingDown"}
Dead == "dead"    \* never connected, or torn down
Closing == {"closingUp", "closingDown"}
Aborting == "aborting"    \* disconnected before it ever connected
NoRotation == [req |-> 0, age |-> 0, any |-> FALSE, done |-> 0]
NoInput == [fn |-> "none"]
DefaultModel == "glm-5"    \* this.model
NoStats == [any |-> FALSE]

\* ---- the SDK object: isConnected()
IsConnectedObj(i) == i # 0 /\ conn[i] \in {"connected", "closingUp"}

\* this.client?.isConnected()
isConnected == IsConnectedObj(client)

\* if (this.connecting)
ConnectInFlightNever == FALSE
ConnectInFlight == connecting # 0

\* the dispatches of the 60 s window that ends at n
Recent(h, n) == SelectSeq(h, LAMBDA t: n - t < WINDOW_MS)

\* requestTimestamps.filter(t => now - t < 60000)
FilterKeepsAll(led, n) == led
Filter(led, n) == SelectSeq(led, LAMBDA t: n - t < WINDOW_MS)

randomDelay(min, max) == min..max

needsRotation(count, n) ==
  \/ count >= MAX_REQUESTS_PER_SESSION
  \/ (sessionCreateTime # 0 /\ n - sessionCreateTime > MAX_SESSION_AGE_MS)

\* ---- the HTTP response of the request a call serves (index.ts)
\* "none": the call was not made for a request; "pending": nothing set or
\* sent; "sse": event-stream headers set, nothing written; "open": headers
\* and data written, not ended; "ended": res.json() or res.end() ran
Unsent == {"pending", "sse"}

\* catch (error): log, and if (!res.headersSent) res.status(500).json(...)
Caught(me) == [me EXCEPT !.resp = IF @ \in Unsent THEN "ended" ELSE @]

\* res.write of the first chunk the generator yields
Written(me) == [me EXCEPT !.resp = IF @ = "sse" THEN "open" ELSE @]

\* res.json(response), or res.write('data: [DONE]') ... res.end()
Answered(me) == [me EXCEPT !.resp = IF @ = "none" THEN @ ELSE "ended"]

\* a rejected await of chat() / chatStream() reaches the caller; also what a
\* caller does when ensureConnected() has returned: config.set on
\* this.client!, a TypeError when the slot is null
Failed(me) == Caught([me EXCEPT !.pc = "idle", !.res = "err", !.tgt = 0, !.seq = 0])
UseClient(me, cli, state) ==
  IF cli = 0 THEN Failed(me) ELSE [me EXCEPT !.pc = state, !.tgt = cli]

\* ---- ensureConnected(), up to its first suspension
EnsureConnected(c, me) ==
  IF isConnected
  THEN /\ cl' = [cl EXCEPT ![c] = UseClient(me, client, "cfg")]
       /\ configured' = [configured EXCEPT ![client] = me.model]
       /\ UNCHANGED <<client, connecting, conn, att, nConn>>
  ELSE IF ConnectInFlight
  THEN /\ cl' = [cl EXCEPT ![c] = [me EXCEPT !.pc = "join", !.tgt = connecting]]
       /\ UNCHANGED <<client, connecting, sdk>>
  ELSE /\ nConn < MaxConns
       /\ LET id == nConn + 1 IN
          /\ nConn' = id
          /\ client' = id
          /\ connecting' = id
          /\ conn' = [conn EXCEPT ![id] = "connecting"]
          /\ att' = [att EXCEPT ![id] = "connect"]
          /\ UNCHANGED configured
          /\ cl' = [cl EXCEPT ![c] = [me EXCEPT !.pc = "start", !.tgt = id]]

\* client.disconnect() on a connected object: the teardown begins
TeardownEntry(s) == IF s = "connected" THEN Closing ELSE {s}

\* checkSessionRotation() when rotation is due: await this.disconnect()
Rotate(c, me) ==
  /\ \E s \in TeardownEntry(conn[client]): conn' = [conn EXCEPT ![client] = s]
  /\ cl' = [cl EXCEPT ![c] = [me EXCEPT !.pc = "rotDisc", !.tgt = client]]
  /\ UNCHANGED <<client, connecting, att, nConn, configured>>

\* this.requestTimestamps.push(this.lastRequestTime)
RecordFirst(led, t) == <<t>> \o led
Record(led, t) == Append(led, t)

\* the tail of checkRateLimit(): record the request, then rotation check,
\* then (back in chat) ensureConnected()
Dispatch(c, caller, led) ==
  LET me == [caller EXCEPT !.seq = requestCount + 1] IN
  /\ lastRequestTime' = now
  /\ requestTimestamps' = Record(led, now)
  /\ requestCount' = requestCount + 1
  /\ hist' = Append(Recent(hist, now), now)
  /\ IF needsRotation(requestCount + 1, now) /\ isConnected
     THEN /\ Rotate(c, me)
          /\ rotLast' = [req |-> sinceRotation + 1,
                         age |-> IF sessionCreateTime # 0
                                 THEN now - sessionCreateTime ELSE 0,
                         any |-> TRUE, done |-> 0]
          /\ sinceRotation' = 1
     ELSE /\ EnsureConnected(c, me)
          /\ sinceRotation' = sinceRotation + 1
          /\ UNCHANGED rotLast
  /\ UNCHANGED <<sessionCreateTime, sessionIdCounter, env, obs, served>>

Suspend(c, me, state, until, n, led) ==
  /\ cl' = [cl EXCEPT ![c] = [me EXCEPT !.pc = state, !.wake = until, !.cnow = n]]
  /\ requestTimestamps' = led
  /\ UNCHANGED <<client, connecting, lastRequestTime, requestCount,
                 sessionCreateTime, sessionIdCounter, sdk, env, obs, ghost>>

\* the minimum spacing check of checkRateLimit(); n is the now read on entry
MinSpacing(c, me, n, led) ==
  \E targetInterval \in randomDelay(MIN_REQUEST_INTERVAL, MAX_REQUEST_INTERVAL):
    LET timeSinceLastRequest == n - lastRequestTime IN
    IF timeSinceLastRequest < targetInterval
    THEN Suspend(c, me, "gapSleep", now + (targetInterval - timeSinceLastRequest), 0, led)
    ELSE Dispatch(c, me, led)

\* checkRateLimit() from its entry
Enter(c, me) ==
  LET led == Filter(requestTimestamps, now)
  IN IF Len(led) >= MAX_REQUESTS_PER_MINUTE
     THEN \E jitter \in randomDelay(JITTER_MIN, JITTER_MAX):
            Suspend(c, me, "ceilSleep",
                    now + (WINDOW_MS - (now - led[1]) + jitter), now, led)
     ELSE MinSpacing(c, me, now, led)

\* chat() / chatStream() is called
Call(c) ==
  /\ cl[c].pc = "idle"
  /\ cl[c].left > 0
  /\ Enter(c, [cl[c] EXCEPT !.left = @ - 1, !.res = "none"])

\* ---- the HTTP handlers of index.ts
\* req.body.messages: absent, or a list of some length
\* and stream, on one of the two endpoints
Endpoints == {"completions", "messages"}
NoBody == [has |-> FALSE, len |-> 0, any |-> FALSE, stream |-> FALSE, ep |-> "none"]
Bodies ==
  {b \in [has: BOOLEAN, len: 0..1, any: {TRUE}, stream: BOOLEAN, ep: Endpoints]:
     b.has \/ b.len = 0}

\* what the handler has done to res when it calls chat() / chatStream():
\* setHeader only (completions), or message_start written (messages)
ResponseAtCall(b) ==
  IF ~b.stream THEN "pending"
  ELSE IF b.ep = "messages" THEN "open"
  ELSE "sse"

\* !options.messages || options.messages.length === 0
RejectedOnlyIfMissing(b) == ~b.has
Rejected(b) == ~b.has \/ b.len = 0

\* a POST arrives on /v1/chat/completions or /v1/messages
Receive(c) ==
  /\ cl[c].pc = "idle"
  /\ cl[c].left > 0
  /\ cl[c].resp # "open"    \* the client is not still reading a response
  /\ \E b \in Bodies:
       cl' = [cl EXCEPT ![c] = [@ EXCEPT !.pc = "http", !.body = b,
                                        !.left = @ - 1, !.res = "none",
                                        !.resp = "pending"]]
  /\ UNCHANGED <<mgr, sdk, env, ghost, obs>>

\* the handler runs: 400, or client.chat / client.chatStream
Handle(c) ==
  /\ cl[c].pc = "http"
  /\ IF Rejected(cl[c].body)
     THEN /\ cl' = [cl EXCEPT ![c] = [@ EXCEPT !.pc = "idle", !.res = "400",
                                              !.body = NoBody, !.resp = "ended"]]
          /\ UNCHANGED <<mgr, sdk, env, ghost, obs>>
     ELSE Enter(c, [cl[c] EXCEPT !.body = NoBody, !.resp = ResponseAtCall(cl[c].body)])

\* the ceiling sleep ends
CeilWake(c) ==
  /\ cl[c].pc = "ceilSleep"
  /\ now >= cl[c].wake
  /\ MinSpacing(c, [cl[c] EXCEPT !.wake = 0, !.cnow = 0], cl[c].cnow, requestTimestamps)

\* the spacing sleep ends
GapWake(c) ==
  /\ cl[c].pc = "gapSleep"
  /\ now >= cl[c].wake
  /\ Dispatch(c, [cl[c] EXCEPT !.wake = 0], requestTimestamps)

\* the rotation cooldown ends: checkRateLimit() returns, ensureConnected()
RotWake(c) ==
  /\ cl[c].pc = "rotSleep"
  /\ now >= cl[c].wake
  /\ EnsureConnected(c, [cl[c] EXCEPT !.wake = 0, !.tgt = 0])
  /\ UNCHANGED <<lastRequestTime, requestCount, sessionCreateTime, sessionIdCounter,
                 requestTimestamps, env, obs, ghost>>

\* ---- the connect() coroutine
Awaiting(c, i) == cl[c].pc \in {"start", "join"} /\ cl[c].tgt = i

\* the attempt settles: the starter's finally clears the marker, and every
\* caller awaiting the attempt continues or receives the error
ResumeSwallowed(me, outcome, cli) == UseClient(me, cli, "cfg")
Resume(me, outcome, cli) ==
  IF outcome = "failed" THEN Failed(me) ELSE UseClient(me, cli, "cfg")

\* finally { this.connecting = null }
MarkerAfterKeptOnFailure(outcome) == IF outcome = "failed" THEN connecting ELSE 0
MarkerAfter(outcome) == 0

Settle(i, outcome, cli) ==
  /\ att' = [att EXCEPT ![i] = outcome]
  /\ connecting' = MarkerAfter(outcome)
  /\ cl' = [c \in Callers |->
              IF Awaiting(c, i) THEN Resume(cl[c], outcome, cli) ELSE cl[c]]
  /\ IF outcome = "ok" /\ cli # 0 /\ \E c \in Callers: Awaiting(c, i)
     THEN \E last \in {c \in Callers: Awaiting(c, i)}:
            configured' = [configured EXCEPT ![cli] = cl[last].model]
     ELSE UNCHANGED configured

\* await this.client.connect() resolves; config.set is issued on this.client
SdkConnectOk(i) ==
  /\ att[i] = "connect"
  /\ conn[i] = "connecting"
  /\ conn' = [conn EXCEPT ![i] = "connected"]
  /\ IF client = 0
     THEN Settle(i, "failed", client)
     ELSE /\ att' = [att EXCEPT ![i] = "config"]
          /\ configured' = [configured EXCEPT ![client] = DefaultModel]
          /\ UNCHANGED <<connecting, cl>>
  /\ UNCHANGED <<client, lastRequestTime, requestCount, sessionCreateTime,
                 sessionIdCounter, requestTimestamps, nConn, env, obs, ghost>>

\* await this.client.connect() rejects
SdkConnectFail(i) ==
  /\ att[i] = "connect"
  /\ \/ /\ conn[i] = "connecting"
        /\ faults > 0
        /\ faults' = faults - 1
        /\ conn' = [conn EXCEPT ![i] = Dead]
     \/ /\ conn[i] \in {Aborting, Dead}
        /\ UNCHANGED <<faults, conn>>
  /\ Settle(i, "failed", client)
  /\ UNCHANGED <<client, lastRequestTime, requestCount, sessionCreateTime,
                 sessionIdCounter, requestTimestamps, nConn, now, horizon, obs, sd, ghost>>

\* config.set('model', this.model) resolves: the session is recorded
SdkConfigOk(i) ==
  /\ att[i] = "config"
  /\ IsConnectedObj(i)
  /\ sessionCreateTime' = now
  /\ sessionIdCounter' = sessionIdCounter + 1
  /\ Settle(i, "ok", client)
  /\ UNCHANGED <<client, lastRequestTime, requestCount, requestTimestamps,
                 conn, nConn, env, obs, ghost>>

\* config.set('model', this.model) rejects
SdkConfigFail(i) ==
  /\ att[i] = "config"
  /\ IF IsConnectedObj(i)
     THEN faults > 0 /\ faults' = faults - 1
     ELSE UNCHANGED faults
  /\ Settle(i, "failed", client)
  /\ UNCHANGED <<client, lastRequestTime, requestCount, sessionCreateTime,
                 sessionIdCounter, requestTimestamps, conn, nConn, now, horizon, obs,
                 sd, ghost>>

\* ---- teardown
\* the SDK drops its connected flag while disconnect() is pending
SdkFlagDrop(i) ==
  /\ conn[i] = "closingUp"
  /\ conn' = [conn EXCEPT ![i] = "closingDown"]
  /\ UNCHANGED <<cl, mgr, att, nConn, configured, env, obs, ghost>>

\* client.disconnect() resolves: every disconnect() awaiting it nulls the
\* slot; a rotating caller then sleeps its cooldown
SdkClosed(i) ==
  /\ conn[i] \in Closing \cup {Aborting}
  /\ conn' = [conn EXCEPT ![i] = Dead]
  /\ served' = [served EXCEPT ![i] = 0]
  /\ client' = 0
  /\ \E d \in [{c \in Callers: cl[c].pc = "rotDisc" /\ cl[c].tgt = i}
                 -> randomDelay(COOLDOWN_MIN, COOLDOWN_MAX)]:
       cl' = [c \in Callers |->
                IF c \in DOMAIN d
                THEN [cl[c] EXCEPT !.pc = "rotSleep", !.wake = now + d[c]]
                ELSE cl[c]]
  /\ sd' = IF sd.pc = "wait" /\ sd.tgt = i THEN [sd EXCEPT !.pc = "idle", !.tgt = 0] ELSE sd
  /\ rotLast' = IF \E c \in Callers: cl[c].pc = "rotDisc" /\ cl[c].tgt = i
                THEN [rotLast EXCEPT !.done = now] ELSE rotLast
  /\ UNCHANGED <<connecting, lastRequestTime, requestCount, sessionCreateTime,
                 sessionIdCounter, requestTimestamps, att, nConn, configured, now, horizon, obs,
                 faults, hist, sinceRotation>>

\* if (this.client): what disconnect() finds in the slot
FoundIfConnected(cli) ==
  IF cli = 0 \/ conn[cli] = Dead THEN "empty" ELSE "held"
Found(cli) ==
  IF cli = 0 THEN "empty"
  ELSE IF conn[cli] = Dead THEN "dead" ELSE "held"

\* disconnect() is called from outside (shutdown)
Disconnect ==
  /\ sd.pc = "idle"
  /\ sd.left > 0
  /\ LET found == Found(client)
         done == [sd EXCEPT !.left = @ - 1, !.found = found]
         wait == [sd EXCEPT !.left = @ - 1, !.found = found, !.pc = "wait", !.tgt = client]
     IN IF found = "empty"
        THEN sd' = done /\ UNCHANGED <<client, conn>>
        ELSE IF found = "dead"
        THEN sd' = done /\ client' = 0 /\ UNCHANGED conn
        ELSE IF conn[client] = "connecting"
        THEN \/ sd' = done /\ client' = 0 /\ UNCHANGED conn
             \/ /\ sd' = wait
                /\ conn' = [conn EXCEPT ![client] = Aborting]
                /\ UNCHANGED client
        ELSE /\ sd' = wait
             /\ \E s \in TeardownEntry(conn[client]): conn' = [conn EXCEPT ![client] = s]
             /\ UNCHANGED client
  /\ UNCHANGED <<cl, connecting, lastRequestTime, requestCount, sessionCreateTime,
                 sessionIdCounter, requestTimestamps, att, nConn, configured, now, horizon, obs,
                 faults, ghost>>

\* ---- the exchange of chat() / chatStream()
\* config.set('model', model) resolves; sendMessage(prompt) is issued
CfgOk(c) ==
  /\ cl[c].pc = "cfg"
  /\ IsConnectedObj(cl[c].tgt)
  /\ cl' = [cl EXCEPT ![c] = UseClient([cl[c] EXCEPT !.seq = 0], client, "send")]
  /\ served' = IF client # 0 THEN [served EXCEPT ![client] = @ + 1] ELSE served
  /\ UNCHANGED <<mgr, sdk, env, obs, hist, sinceRotation, rotLast>>

\* sendMessage(prompt) resolves; receiveMessages() is opened
SendOk(c) ==
  /\ cl[c].pc = "send"
  /\ IsConnectedObj(cl[c].tgt)
  /\ cl' = [cl EXCEPT ![c] = UseClient(Written(cl[c]), client, "recv")]
  /\ UNCHANGED <<mgr, sdk, env, obs, ghost>>

\* the receive loop ends (TASK_FINISH, or the stream closes)
RecvDone(c) ==
  /\ cl[c].pc = "recv"
  /\ cl' = [cl EXCEPT ![c] = Answered([@ EXCEPT !.pc = "idle", !.res = "ok", !.tgt = 0])]
  /\ UNCHANGED <<mgr, sdk, env, obs, ghost>>

\* a backend operation of the exchange rejects
OpFail(c) ==
  /\ cl[c].pc \in {"cfg", "send", "recv"}
  /\ IF IsConnectedObj(cl[c].tgt)
     THEN faults > 0 /\ faults' = faults - 1
     ELSE UNCHANGED faults
  /\ cl' = [cl EXCEPT ![c] = Failed(@)]
  /\ UNCHANGED <<mgr, sdk, now, horizon, obs, sd, ghost>>

\* a backend operation of the exchange rejects because the connection is
\* lost: the object reports not connected from then on
OpFailLost(c) ==
  /\ cl[c].pc \in {"cfg", "send", "recv"}
  /\ IsConnectedObj(cl[c].tgt)
  /\ faults > 0 /\ faults' = faults - 1
  /\ conn' = [conn EXCEPT ![cl[c].tgt] = Dead]
  /\ cl' = [cl EXCEPT ![c] = Failed(@)]
  /\ UNCHANGED <<mgr, att, nConn, configured, now, horizon, obs, sd, ghost>>

\* ---- the clock
\* A timer fires in the tick it is due.  The clock is read by the manager
\* only; backend operations are taken to settle within the tick unless a
\* timer is pending, so time passes while a caller sleeps or nothing runs.
Sleeping(c) == cl[c].pc \in {"ceilSleep", "gapSleep", "rotSleep"}
Quiescent ==
  /\ \A c \in Callers: cl[c].pc = "idle"
  /\ sd.pc = "idle"
  /\ \A i \in Conns: att[i] \notin {"connect", "config"}

Tick ==
  /\ now < horizon
  /\ \A c \in Callers: Sleeping(c) => cl[c].wake > now
  /\ Quiescent \/ \E c \in Callers: Sleeping(c)
  /\ now' = now + 1
  /\ UNCHANGED <<cl, mgr, sdk, horizon, obs, sd, faults, ghost>>

\* ---- getStats()
\* what getStats() leaves in this.requestTimestamps: the filtered ledger goes
\* to a local, the field is not assigned
LedgerAfterStatsPruned(led, n) == Filter(led, n)
LedgerAfterStats(led, n) == led

StatsValueCountingItself(n) ==
  [totalRequests |-> requestCount + (IF stats.any THEN stats.n ELSE 0),
   recentRequests |-> Len(Filter(requestTimestamps, n)),
   sessionCount |-> sessionIdCounter,
   sessionAgeSec |-> IF sessionCreateTime # 0
                     THEN (n - sessionCreateTime) \div MS_PER_SEC ELSE 0]
StatsValue(n) ==
  [totalRequests |-> requestCount,
   recentRequests |-> Len(Filter(requestTimestamps, n)),
   sessionCount |-> sessionIdCounter,
   sessionAgeSec |-> IF sessionCreateTime # 0
                     THEN (n - sessionCreateTime) \div MS_PER_SEC ELSE 0]

\* getStats() is called; stats keeps what it returned, when, how many chat
\* calls had been made by then, whether one was in progress, and whether
\* this call repeats the previous one with no chat call started or in
\* progress since
NoCallSince ==
  /\ stats.any /\ ~stats.busy
  /\ \A c \in Callers: cl[c].pc = "idle" /\ cl[c].left = stats.left[c]

GetStats ==
  /\ (IF stats.any THEN stats.n ELSE 0) < MaxStats
  /\ requestTimestamps' = LedgerAfterStats(requestTimestamps, now)
  /\ stats' = [any |-> TRUE,
               n |-> (IF stats.any THEN stats.n ELSE 0) + 1,
               val |-> StatsValue(now),
               at |-> now,
               left |-> [c \in Callers |-> cl[c].left],
               busy |-> \E c \in Callers: cl[c].pc # "idle",
               rep |-> NoCallSince]
  /\ UNCHANGED <<cl, client, connecting, lastRequestTime, requestCount,
                 sessionCreateTime, sessionIdCounter, sdk, env, ghost, input, output>>

\* ---- chatStream(): the generator after sendMessage(prompt)
\* A backend message is ASSISTANT with chunk.text a string or absent (a
\* thought), TASK_FINISH, or of another type.
Undefined == "undefined"
Texts == {"", "He", "llo"}
Messages ==
  [type: {"assistant"}, text: Texts \cup {Undefined}]
    \cup [type: {"finish", "other"}, text: {Undefined}]

\* JavaScript truthiness of chunk?.text
Truthy(t) == t # Undefined /\ t # ""

RoleChunk == [delta |-> "role", content |-> Undefined, finish_reason |-> "null"]
ContentChunk(t) == [delta |-> "content", content |-> t, finish_reason |-> "null"]
StopChunk == [delta |-> "empty", content |-> Undefined, finish_reason |-> "stop"]

\* the chunks one backend message makes the loop yield
OnMessageAnyText(m) ==
  IF m.type = "assistant" /\ m.text # Undefined THEN <<ContentChunk(m.text)>>
  ELSE IF m.type = "finish" THEN <<StopChunk>>
  ELSE <<>>
OnMessage(m) ==
  IF m.type = "assistant" /\ Truthy(m.text) THEN <<ContentChunk(m.text)>>
  ELSE IF m.type = "finish" THEN <<StopChunk>>
  ELSE <<>>

\* yield the role delta
StreamRole ==
  /\ input.fn = "chatStream" /\ input.pc = "role"
  /\ output' = Append(output, RoleChunk)
  /\ input' = [input EXCEPT !.pc = "loop"]
  /\ UNCHANGED <<cl, mgr, sdk, env, ghost, stats>>

\* one pass of for await (const message of receiveMessages())
StreamMessage ==
  /\ input.fn = "chatStream" /\ input.pc = "loop"
  /\ input.rest # <<>>
  /\ LET m == Head(input.rest) IN
       /\ output' = output \o OnMessage(m)
       /\ input' = [input EXCEPT !.rest = Tail(@),
                                 !.pc = IF m.type = "finish" THEN "done" ELSE "loop"]
  /\ UNCHANGED <<cl, mgr, sdk, env, ghost, stats>>

\* the backend stream ends without TASK_FINISH
StreamClosed ==
  /\ input.fn = "chatStream" /\ input.pc = "loop"
  /\ input.rest = <<>>
  /\ input' = [input EXCEPT !.pc = "done"]
  /\ UNCHANGED <<cl, mgr, sdk, env, ghost, output, stats>>

\* ---- model aliases
MODEL_ALIASES ==
  [k \in {"claude-opus-4-6", "claude-opus-4", "claude-sonnet-4-6", "claude-sonnet-4",
          "claude-haiku-4-5", "claude-haiku-4", "opus-4", "sonnet-4", "haiku-4"}
     |-> "glm-5"]

\* MODEL_ALIASES is an object literal: a property read that finds no own key
\* goes on to Object.prototype and returns what it finds there
ObjectPrototype == {"constructor", "toString"}
Inherited(k) == "[Object.prototype." \o k \o "]"

\* MODEL_ALIASES[k]
Lookup(k) ==
  IF k \in DOMAIN MODEL_ALIASES THEN MODEL_ALIASES[k]
  ELSE IF k \in ObjectPrototype THEN Inherited(k)
  ELSE Undefined

\* MODEL_ALIASES[model] || model
ResolveModel(model) == IF Truthy(Lookup(model)) THEN Lookup(model) ELSE model

ModelIds ==
  DOMAIN MODEL_ALIASES \cup {"glm-5", "kimi-k2", "no-such-model"} \cup ObjectPrototype

\* ---- buildPrompt()
\* content is a string, or an array of parts {type, text?}
Str(t) == [kind |-> "string", text |-> t, parts |-> <<>>]
Arr(ps) == [kind |-> "array", text |-> Undefined, parts |-> ps]
TextPart(t) == [type |-> "text", text |-> t]
ImagePart == [type |-> "image_url", text |-> Undefined]
Contents ==
  {Str("hi"), Str("hello"),
   Arr(<<TextPart("a"), TextPart("b")>>),
   Arr(<<TextPart("a"), ImagePart, TextPart("b")>>),
   Arr(<<TextPart(""), TextPart("b")>>),
   Arr(<<ImagePart>>)}
Roles == {"system", "user", "assistant"}
ChatMessages == [role: Roles, content: Contents]

RECURSIVE Join(_, _)
\* Array.prototype.join
Join(ss, sep) ==
  IF ss = <<>> THEN ""
  ELSE IF Len(ss) = 1 THEN ss[1]
  ELSE ss[1] \o sep \o Join(Tail(ss), sep)

\* .filter(item => item.type === 'text' && item.text).map(item => item.text)
KeptTexts(ps) ==
  LET kept == SelectSeq(ps, LAMBDA p: p.type = "text" /\ Truthy(p.text))
  IN [k \in 1..Len(kept) |-> kept[k].text]

TextContent(content) ==
  IF content.kind = "string" THEN content.text ELSE Join(KeptTexts(content.parts), "\n")

\* parts.push(...) per message
Tagged(msg) ==
  IF msg.role = "system" THEN "[System]: " \o TextContent(msg.content)
  ELSE IF msg.role = "user" THEN TextContent(msg.content)
  ELSE "[Assistant]: " \o TextContent(msg.content)

\* [...messages].reverse().find(m => m.role === 'user'), as an index (0: none)
FirstUserIndex(ms) ==
  IF \E k \in 1..Len(ms): ms[k].role = "user"
  THEN CHOOSE k \in 1..Len(ms): ms[k].role = "user" /\ \A j \in 1..(k - 1): ms[j].role # "user"
  ELSE 0
TrailingUserIndex(ms) ==
  IF ms # <<>> /\ ms[Len(ms)].role = "user" THEN Len(ms) ELSE 0
LastUserIndex(ms) ==
  IF \E k \in 1..Len(ms): ms[k].role = "user"
  THEN CHOOSE k \in 1..Len(ms): ms[k].role = "user" /\ \A j \in (k + 1)..Len(ms): ms[j].role # "user"
  ELSE 0

buildPrompt(ms) ==
  IF LastUserIndex(ms) # 0
  THEN TextContent(ms[LastUserIndex(ms)].content)
  ELSE Join([k \in 1..Len(ms) |-> Tagged(ms[k])], "\n\n")

\* chat(options) / chatStream(options) is called with options.model given
RequestModels == {"claude-opus-4-6", "kimi-k2"}

CallFor(c) ==
  /\ cl[c].pc = "idle"
  /\ cl[c].left > 0
  /\ \E m \in RequestModels:
       Enter(c, [cl[c] EXCEPT !.left = @ - 1, !.res = "none", !.model = ResolveModel(m)])

\* ---- what chat(), chatStream() and setModel() hand to the backend
\* setModel(model): this.model, which connect() sends with config.set
SetModel ==
  /\ input.fn = "setModel" /\ input.pc = "call"
  /\ output' = Append(output, [op |-> "this.model", arg |-> ResolveModel(input.model)])
  /\ input' = [input EXCEPT !.pc = "done"]
  /\ UNCHANGED <<cl, mgr, sdk, env, ghost, stats>>

\* config.set('model', MODEL_ALIASES[options.model] || options.model)
ChatConfig ==
  /\ input.fn \in {"chat", "chatStream"} /\ input.pc = "call"
  /\ output' = Append(output, [op |-> "config.set", arg |-> ResolveModel(input.model)])
  /\ input' = [input EXCEPT !.pc = "prompt"]
  /\ UNCHANGED <<cl, mgr, sdk, env, ghost, stats>>

\* sendMessage(this.buildPrompt(options.messages))
ChatSend ==
  /\ input.fn \in {"chat", "chatStream"} /\ input.pc = "prompt"
  /\ output' = Append(output, [op |-> "sendMessage", arg |-> buildPrompt(input.messages)])
  /\ input' = [input EXCEPT !.pc = "done"]
  /\ UNCHANGED <<cl, mgr, sdk, env, ghost, stats>>

\* ---- specifications
StartManager(budget, h, d, f) ==
  /\ cl = [c \in Callers |-> [pc |-> "idle", wake |-> 0, cnow |-> 0, tgt |-> 0,
                              res |-> "none", left |-> budget[c], seq |-> 0,
                              body |-> NoBody, resp |-> "none",
                              model |-> DefaultModel]]
  /\ client = 0
  /\ connecting = 0
  /\ lastRequestTime = 0
  /\ requestCount = 0
  /\ sessionCreateTime = 0
  /\ sessionIdCounter = 0
  /\ requestTimestamps = <<>>
  /\ conn = [i \in Conns |-> "none"]
  /\ att = [i \in Conns |-> "none"]
  /\ nConn = 0
  /\ configured = [i \in Conns |-> "none"]
  /\ now = Epoch
  /\ horizon = h
  /\ sd = [pc |-> "idle", tgt |-> 0, left |-> d, found |-> "none"]
  /\ faults = f
  /\ hist = <<>>
  /\ served = [i \in Conns |-> 0]
  /\ sinceRotation = 0
  /\ rotLast = NoRotation

Start(budget, h, d, f) ==
  /\ StartManager(budget, h, d, f)
  /\ input = NoInput
  /\ output = <<>>
  /\ stats = NoStats

\* two concurrent callers, one making MaxCalls calls and one a single call,
\* and an external disconnect()
Init == Start([c \in Callers |-> IF c = 1 THEN MaxCalls ELSE IF c = 2 THEN 1 ELSE 0],
              Epoch + MaxTime, MaxDisconnects, MaxFaults)

Next ==
  \/ \E c \in Callers: Call(c)
  \/ \E c \in Callers: CeilWake(c)
  \/ \E c \in Callers: GapWake(c)
  \/ \E c \in Callers: RotWake(c)
  \/ \E i \in Conns: SdkConnectOk(i)
  \/ \E i \in Conns: SdkConnectFail(i)
  \/ \E i \in Conns: SdkConfigOk(i)
  \/ \E i \in Conns: SdkConfigFail(i)
  \/ \E i \in Conns: SdkFlagDrop(i)
  \/ \E i \in Conns: SdkClosed(i)
  \/ Disconnect
  \/ \E c \in Callers: CfgOk(c)
  \/ \E c \in Callers: SendOk(c)
  \/ \E c \in Callers: RecvDone(c)
  \/ \E c \in Callers: OpFail(c)
  \/ Tick

Spec == Init /\ [][Next]_vars

\* one caller making its calls one after another, one call more than a
\* session may serve, against a backend that does not fail
InitSeq == Start([c \in Callers |-> IF c = 1 THEN MAX_REQUESTS_PER_SESSION + 1 ELSE 0],
                 Epoch + MaxTime + COOLDOWN_MAX + MAX_REQUEST_INTERVAL, 0, 0)

NextSeq ==
  \/ \E c \in Callers: Call(c)
  \/ \E c \in Callers: CeilWake(c)
  \/ \E c \in Callers: GapWake(c)
  \/ \E c \in Callers: RotWake(c)
  \/ \E i \in Conns: SdkConnectOk(i)
  \/ \E i \in Conns: SdkConfigOk(i)
  \/ \E i \in Conns: SdkFlagDrop(i)
  \/ \E i \in Conns: SdkClosed(i)
  \/ \E c \in Callers: CfgOk(c)
  \/ \E c \in Callers: SendOk(c)
  \/ \E c \in Callers: RecvDone(c)
  \/ Tick

SpecSeq == InitSeq /\ [][NextSeq]_vars

\* the sequential caller against a backend of which one operation may fail,
\* at the connect, at the default-model configuration or during an exchange,
\* with or without losing the connection; every timer and backend promise
\* that can run does run
InitSeqFault ==
  Start([c \in Callers |-> IF c = 1 THEN MAX_REQUESTS_PER_SESSION + 1 ELSE 0],
        Epoch + MaxTime + COOLDOWN_MAX + MAX_REQUEST_INTERVAL, 0, MaxFaults)

NextSeqFault ==
  \/ NextSeq
  \/ \E i \in Conns: SdkConnectFail(i)
  \/ \E i \in Conns: SdkConfigFail(i)
  \/ \E c \in Callers: OpFail(c)
  \/ \E c \in Callers: OpFailLost(c)

SpecSeqFault == InitSeqFault /\ [][NextSeqFault]_vars /\ WF_vars(NextSeqFault)

\* two concurrent callers whose third dispatch reaches the rotation count,
\* against a backend that does not fail, with no external disconnect()
InitRot == Start([c \in Callers |-> IF c = 1 THEN MaxCalls ELSE IF c = 2 THEN 1 ELSE 0],
                 Epoch + MaxTime, 0, 0)

NextRot ==
  \/ \E c \in Callers: Call(c)
  \/ \E c \in Callers: CeilWake(c)
  \/ \E c \in Callers: GapWake(c)
  \/ \E c \in Callers: RotWake(c)
  \/ \E i \in Conns: SdkConnectOk(i)
  \/ \E i \in Conns: SdkConfigOk(i)
  \/ \E i \in Conns: SdkFlagDrop(i)
  \/ \E i \in Conns: SdkClosed(i)
  \/ \E c \in Callers: CfgOk(c)
  \/ \E c \in Callers: SendOk(c)
  \/ \E c \in Callers: RecvDone(c)
  \/ \E c \in Callers: OpFail(c)
  \/ Tick

SpecRot == InitRot /\ [][NextRot]_vars

\* two concurrent callers making MaxCalls calls each, one call more than a
\* session may serve, with time for a rotation and its cooldown
InitCool ==
  Start([c \in Callers |-> IF c \in {1, 2} THEN MaxCalls ELSE 0],
        Epoch + MaxTime + COOLDOWN_MAX, 0, 0)

SpecCool == InitCool /\ [][NextRot]_vars

\* one call from each of two callers, each for a model of its choice, against
\* a backend that does not fail
InitModels ==
  Start([c \in Callers |-> IF c \in {1, 2} THEN 1 ELSE 0], Epoch + MaxTime, 0, 0)

NextModels ==
  \/ \E c \in Callers: CallFor(c)
  \/ \E c \in Callers: GapWake(c)
  \/ \E i \in Conns: SdkConnectOk(i)
  \/ \E i \in Conns: SdkConfigOk(i)
  \/ \E c \in Callers: CfgOk(c)
  \/ \E c \in Callers: SendOk(c)
  \/ \E c \in Callers: RecvDone(c)
  \/ Tick

SpecModels == InitModels /\ [][NextModels]_vars

\* a burst at start-up: one call from every caller, more calls than a session
\* may serve, all arriving within the spacing interval
InitBurst == Start([c \in Callers |-> 1], Epoch + MAX_REQUEST_INTERVAL, 0, MaxFaults)

NextBurst ==
  \/ \E c \in Callers: Call(c)
  \/ \E c \in Callers: GapWake(c)
  \/ \E i \in Conns: SdkConnectOk(i)
  \/ \E i \in Conns: SdkConnectFail(i)
  \/ \E i \in Conns: SdkConfigOk(i)
  \/ \E i \in Conns: SdkConfigFail(i)
  \/ \E i \in Conns: SdkFlagDrop(i)
  \/ \E i \in Conns: SdkClosed(i)
  \/ \E c \in Callers: CfgOk(c)
  \/ \E c \in Callers: SendOk(c)
  \/ \E c \in Callers: RecvDone(c)
  \/ \E c \in Callers: OpFail(c)
  \/ Tick

SpecBurst == InitBurst /\ [][NextBurst]_vars

\* one call from each of two callers, too few for a rotation, and
\* disconnect() called from outside more than once, one call after another
InitShutdown ==
  Start([c \in Callers |-> IF c \in {1, 2} THEN 1 ELSE 0], Epoch + MaxTime,
        MaxDisconnects + 1, MaxFaults)

NextShutdown ==
  \/ \E c \in Callers: Call(c)
  \/ \E c \in Callers: GapWake(c)
  \/ \E i \in Conns: SdkConnectOk(i)
  \/ \E i \in Conns: SdkConnectFail(i)
  \/ \E i \in Conns: SdkConfigOk(i)
  \/ \E i \in Conns: SdkConfigFail(i)
  \/ \E i \in Conns: SdkFlagDrop(i)
  \/ \E i \in Conns: SdkClosed(i)
  \/ Disconnect
  \/ \E c \in Callers: CfgOk(c)
  \/ \E c \in Callers: SendOk(c)
  \/ \E c \in Callers: RecvDone(c)
  \/ \E c \in Callers: OpFail(c)
  \/ Tick

SpecShutdown == InitShutdown /\ [][NextShutdown]_vars

\* the callers of SpecRot, their calls arriving as HTTP requests
NextHttp ==
  \/ \E c \in Callers: Receive(c)
  \/ \E c \in Callers: Handle(c)
  \/ \E c \in Callers: CeilWake(c)
  \/ \E c \in Callers: GapWake(c)
  \/ \E c \in Callers: RotWake(c)
  \/ \E i \in Conns: SdkConnectOk(i)
  \/ \E i \in Conns: SdkConfigOk(i)
  \/ \E i \in Conns: SdkFlagDrop(i)
  \/ \E i \in Conns: SdkClosed(i)
  \/ \E c \in Callers: CfgOk(c)
  \/ \E c \in Callers: SendOk(c)
  \/ \E c \in Callers: RecvDone(c)
  \/ \E c \in Callers: OpFail(c)
  \/ Tick

SpecHttp == InitRot /\ [][NextHttp]_vars

\* one request from each of two clients, too few for a rotation, against a
\* backend of which one operation may fail; every handler, timer and backend
\* promise that can run does run
InitHttpFault ==
  Start([c \in Callers |-> IF c \in {1, 2} THEN 1 ELSE 0], Epoch + MaxTime, 0, MaxFaults)

NextHttpFault ==
  \/ \E c \in Callers: Receive(c)
  \/ \E c \in Callers: Handle(c)
  \/ \E c \in Callers: GapWake(c)
  \/ \E i \in Conns: SdkConnectOk(i)
  \/ \E i \in Conns: SdkConnectFail(i)
  \/ \E i \in Conns: SdkConfigOk(i)
  \/ \E i \in Conns: SdkConfigFail(i)
  \/ \E c \in Callers: CfgOk(c)
  \/ \E c \in Callers: SendOk(c)
  \/ \E c \in Callers: RecvDone(c)
  \/ \E c \in Callers: OpFail(c)
  \/ Tick

SpecHttpFault == InitHttpFault /\ [][NextHttpFault]_vars /\ WF_vars(NextHttpFault)

\* the callers of SpecRot, and a status endpoint calling getStats()
NextStats == NextRot \/ GetStats

SpecStats == InitRot /\ [][NextStats]_vars

\* chatStream() draining a backend stream of up to MaxMessages messages
SeqsUpTo(S, n) == UNION {[1..k -> S]: k \in 0..n}

InitStream ==
  /\ StartManager([c \in Callers |-> 0], Epoch, 0, 0)
  /\ input \in {[fn |-> "chatStream", pc |-> "role", all |-> ms, rest |-> ms]:
                  ms \in SeqsUpTo(Messages, MaxMessages)}
  /\ output = <<>>
  /\ stats = NoStats

NextStream == StreamRole \/ StreamMessage \/ StreamClosed

SpecStream == InitStream /\ [][NextStream]_vars

\* one call of chat(), chatStream() or setModel() on a connected manager:
\* every model identifier with one message list, every message list of up
\* to MaxTurns messages with one model
CallInputs ==
  {[fn |-> f, pc |-> "call", model |-> m, messages |-> <<[role |-> "user", content |-> Str("hi")]>>]:
     f \in {"chat", "chatStream", "setModel"}, m \in ModelIds}
  \cup {[fn |-> f, pc |-> "call", model |-> "glm-5", messages |-> ms]:
     f \in {"chat", "chatStream"}, ms \in SeqsUpTo(ChatMessages, MaxTurns) \ {<<>>}}

InitCall ==
  /\ StartManager([c \in Callers |-> 0], Epoch, 0, 0)
  /\ input \in CallInputs
  /\ output = <<>>
  /\ stats = NoStats

NextCall == SetModel \/ ChatConfig \/ ChatSend

SpecCall == InitCall /\ [][NextCall]_vars

\* ---- the claims
InFlight == {i \in Conns: att[i] \in {"connect", "config"}}
Waiting(c) == cl[c].pc \in {"start", "join"}
Fails(i) == att[i] \in {"connect", "config"} /\ att'[i] = "failed"

\* C1: callers that invoke ensureConnected while no connection is live share
\* one connect attempt: at most one attempt is in flight, one caller started
\* it, and every caller suspended in ensureConnected awaits that attempt.
C1_SingleConnectAttempt ==
  /\ Cardinality(InFlight) <= 1
  /\ Cardinality({c \in Callers: cl[c].pc = "start"}) <= 1
  /\ \A c \in Callers: Waiting(c) => cl[c].tgt = connecting /\ connecting \in InFlight

\* every caller of the burst awaits the first and only attempt
C1_Witness == nConn = 1 /\ \A c \in Callers: Awaiting(c, 1)

\* C2: while one call is between its send and the end of its receive drain,
\* no other call configures, sends on or receives from the connection.
C2_NoInterleaving ==
  \A c1, c2 \in Callers:
    (c1 # c2 /\ cl[c1].pc \in {"send", "recv"}) => cl[c2].pc \notin {"cfg", "send", "recv"}

\* C3: at most one backend connection is live (connected and not yet torn down).
C3_AtMostOneLive == Cardinality({i \in Conns: conn[i] \in Live}) <= 1

\* C4: no connection is constructed while the teardown of a connection that
\* was connected has begun and is not complete.
C4_NoConnectDuringTeardown ==
  [][nConn' > nConn => ~(\E i \in Conns: conn[i] \in Closing)]_vars

\* C5: no 60 s window holds more dispatch timestamps than the ceiling.
C5_CeilingHolds == Len(hist) <= MAX_REQUESTS_PER_MINUTE

\* C6: consecutive dispatches are at least the minimum spacing apart.
C6_MinSpacing ==
  \A k \in 1..(Len(hist) - 1): hist[k + 1] - hist[k] >= MIN_REQUEST_INTERVAL

\* C7: once a session has served the rotation count of calls, the next call
\* runs on a new session: no session serves one call more.
C7_RotationAfterCount == \A i \in Conns: served[i] <= MAX_REQUESTS_PER_SESSION

\* C8: rotation tears a session down only when the calls made since that
\* session was created have reached the rotation count or it is older than
\* the maximum age.  (sinceRotation counts at least those calls.)
C8_RotationJustified ==
  rotLast.any => (rotLast.req >= MAX_REQUESTS_PER_SESSION
                  \/ rotLast.age > MAX_SESSION_AGE_MS)

\* C9: a connect attempt that fails leaves the manager disconnected, and the
\* session counter and creation time as they were.
C9_FailedConnectDisconnected ==
  [][(\E i \in Conns: Fails(i)) =>
       /\ ~isConnected'
       /\ sessionIdCounter' = sessionIdCounter
       /\ sessionCreateTime' = sessionCreateTime]_vars

\* C10: when a connect attempt fails, every caller awaiting it receives the
\* error in that step, and no caller stays suspended on a settled attempt.
C10_FailureReachesWaiters ==
  /\ [](\A c \in Callers: Waiting(c) => cl[c].tgt \in InFlight)
  /\ [][\A i \in Conns: Fails(i) =>
           \A c \in Callers: Awaiting(c, i) =>
              cl'[c].pc = "idle" /\ cl'[c].res = "err"]_vars

\* both callers awaited the first attempt, which could not reach the backend
C10_Witness ==
  /\ nConn = 1 /\ att[1] = "failed" /\ conn[1] = Dead
  /\ requestCount = 2 /\ sd.left = MaxDisconnects
  /\ cl[1].res = "err" /\ cl[2].res = "err"

\* a call between ensureConnected() and the end of its drain fails although
\* the backend did not fail of its own accord (no fault is used): its
\* operation was outstanding on a connection torn down under it, or its next
\* this.client! found the slot null
LostUse(c) ==
  /\ cl[c].pc \in {"cfg", "send", "recv"}
  /\ cl'[c].pc = "idle" /\ cl'[c].res = "err"
  /\ faults' = faults

\* a caller issues config.set, sendMessage or receiveMessages on an object
\* that is not connected
DeadUse(c) ==
  /\ cl'[c].pc \in {"cfg", "send", "recv"}
  /\ cl'[c].pc # cl[c].pc
  /\ conn'[cl'[c].tgt] \notin {"connected", "closingUp"}

\* C11: no call issues configure, send or receive on a missing or
\* not-connected connection, and none fails for want of a connection,
\* whatever rotation interleaves.
C11_ConnectBeforeUse ==
  [][\A c \in Callers: ~LostUse(c) /\ ~DeadUse(c)]_vars

\* caller c issues sendMessage(prompt) in this step
Sends(c) == cl[c].pc = "cfg" /\ cl'[c].pc = "send"

\* C12: prompts are sent in the order the calls recorded their dispatch: when
\* a call sends, no call that dispatched before it is still to send.
C12_ServedInGateOrder ==
  [][\A c, d \in Callers:
       (Sends(c) /\ d # c /\ cl[d].seq # 0) => cl[d].seq > cl[c].seq]_vars

\* the stream as the backend sent it, up to and including its completion event
FirstFinish(ms) ==
  IF \E k \in 1..Len(ms): ms[k].type = "finish"
  THEN CHOOSE k \in 1..Len(ms): ms[k].type = "finish" /\ \A j \in 1..(k - 1): ms[j].type # "finish"
  ELSE 0
TextEvent(m) == m.type = "assistant" /\ m.text # Undefined
\* n text events followed by a completion event
TextsThenFinish(ms) ==
  /\ Len(ms) >= 1
  /\ ms[Len(ms)].type = "finish"
  /\ \A k \in 1..(Len(ms) - 1): TextEvent(ms[k])
Done == input.fn = "chatStream" /\ input.pc = "done"

\* C13 as stated: for n text events followed by a completion event the
\* stream yields n + 2 chunks: the role chunk, one content chunk per text
\* event in order with its text, the stop chunk.
C13_StreamChunks ==
  (Done /\ TextsThenFinish(input.all)) =>
    LET n == Len(input.all) - 1 IN
    /\ Len(output) = n + 2
    /\ output[1] = RoleChunk
    /\ \A k \in 1..n: output[k + 1] = ContentChunk(input.all[k].text)
    /\ output[n + 2] = StopChunk

\* C13 amended: for any stream that holds a completion event, the chunks are
\* the role chunk, one content chunk per text event with non-empty text
\* before the completion event, in order, then the stop chunk; nothing after.
C13_StreamChunksNonEmpty ==
  (Done /\ FirstFinish(input.all) # 0) =>
    LET f == FirstFinish(input.all)
        shown == SelectSeq(SubSeq(input.all, 1, f - 1),
                           LAMBDA m: TextEvent(m) /\ m.text # "")
    IN output = <<RoleChunk>> \o [k \in 1..Len(shown) |-> ContentChunk(shown[k].text)]
                  \o <<StopChunk>>

\* the stream "He", "llo", completion has been drained
C13_Witness ==
  /\ Done
  /\ input.all = <<[type |-> "assistant", text |-> "He"],
                   [type |-> "assistant", text |-> "llo"],
                   [type |-> "finish", text |-> Undefined]>>
  /\ Len(output) = 4

\* getStats() returns in this step
StatsStep == stats' # stats

\* C14: getStats leaves the request count, the ledger, the last-dispatch
\* time, the session creation time, the session counter, the connection slot
\* and the in-flight marker unchanged.
C14_GetStatsFrame == [][StatsStep => UNCHANGED mgr]_vars

\* getStats() has returned while the ledger held a timestamp older than the
\* window, which is still there
C14_Witness ==
  /\ stats.any /\ stats.at = now /\ stats.val = StatsValue(now)
  /\ Len(Filter(requestTimestamps, now)) < Len(requestTimestamps)

\* this getStats() follows an earlier one with no chat / chatStream call
\* started or in progress since
Repeated == StatsStep /\ NoCallSince

\* C15 as stated: getStats called again with no chat call in between
\* returns identical values.
C15_StatsRepeatable == [][Repeated => stats'.val = stats.val]_vars

\* C15 amended: total requests and session count are identical; recent
\* requests and session age are identical when no time has passed.
C15_StatsRepeatableCounts ==
  [][Repeated =>
       /\ stats'.val.totalRequests = stats.val.totalRequests
       /\ stats'.val.sessionCount = stats.val.sessionCount
       /\ (stats'.at = stats.at => stats'.val = stats.val)]_vars

\* getStats() has returned a second time with no chat call since the first,
\* after a call had been served on a session
C15_Witness ==
  /\ stats.any /\ stats.rep /\ stats.at = now
  /\ stats.val.totalRequests >= 1 /\ stats.val.sessionCount >= 1

\* the slot is empty, or holds an object that failed or was torn down
Disconnected == client = 0 \/ conn[client] = Dead

\* C16: getStats reports session age 0 whenever the manager is disconnected.
C16_AgeZeroWhenDisconnected ==
  [][(StatsStep /\ Disconnected) => stats'.val.sessionAgeSec = 0]_vars

\* the value handed to the backend by the call, once it has been handed over
Sent(op) == {output[k].arg: k \in {j \in 1..Len(output): output[j].op = op}}

\* C17: a model identifier that is a key of the alias table is replaced by
\* its target, any other identifier is passed on unchanged, in chat,
\* chatStream and setModel.
C17_AliasResolution ==
  \A m \in Sent("config.set") \cup Sent("this.model"):
    m = (IF input.model \in DOMAIN MODEL_ALIASES THEN MODEL_ALIASES[input.model]
         ELSE input.model)

\* the message the claims call the last user message
IsLastUser(ms, k) ==
  /\ k \in 1..Len(ms) /\ ms[k].role = "user"
  /\ \A j \in (k + 1)..Len(ms): ms[j].role # "user"

\* the text parts of a multi-part content, in order
TextsOf(ps) ==
  LET ts == SelectSeq(ps, LAMBDA p: p.type = "text" /\ p.text # Undefined)
  IN [k \in 1..Len(ts) |-> ts[k].text]
NonEmpty(ts) == SelectSeq(ts, LAMBDA t: t # "")

RECURSIVE Concat(_)
Concat(ts) == IF ts = <<>> THEN "" ELSE ts[1] \o Concat(Tail(ts))

RECURSIVE Lines(_)
Lines(ts) ==
  IF ts = <<>> THEN ""
  ELSE IF Tail(ts) = <<>> THEN ts[1]
  ELSE ts[1] \o "\n" \o Lines(Tail(ts))

\* C18 as stated: when the list holds a user message the prompt is the text
\* of the last one, multi-part content flattened by concatenating its text
\* parts in order.
C18_PromptIsLastUser ==
  \A p \in Sent("sendMessage"): \A k \in 1..Len(input.messages):
    IsLastUser(input.messages, k) =>
      LET c == input.messages[k].content IN
      p = (IF c.kind = "string" THEN c.text ELSE Concat(TextsOf(c.parts)))

\* C18 amended: multi-part content is flattened by joining its non-empty
\* text parts, in order, with a newline between them.
C18_PromptIsLastUserLines ==
  \A p \in Sent("sendMessage"): \A k \in 1..Len(input.messages):
    IsLastUser(input.messages, k) =>
      LET c == input.messages[k].content IN
      p = (IF c.kind = "string" THEN c.text ELSE Lines(NonEmpty(TextsOf(c.parts))))

\* a user message of two text parts around an image has been sent
C18_Witness ==
  /\ input.fn = "chat" /\ input.pc = "done"
  /\ input.messages = <<[role |-> "system", content |-> Str("hi")],
                        [role |-> "user",
                         content |-> Arr(<<TextPart("a"), ImagePart, TextPart("b")>>)]>>
  /\ Sent("sendMessage") = {"a\nb"}

\* a list whose last message is an assistant message preceded by a user message
UserThenAssistant(ms) ==
  Len(ms) = 2 /\ ms[1].role = "user" /\ ms[2].role = "assistant"

\* C19 as stated: such a list falls back to the multi-line reconstruction,
\* and the prompt holds both entries, the assistant's tagged.
C19_FallbackIncludesBoth ==
  \A p \in Sent("sendMessage"):
    UserThenAssistant(input.messages) =>
      p = TextContent(input.messages[1].content) \o "\n\n" \o "[Assistant]: "
            \o TextContent(input.messages[2].content)

\* C19 amended: such a list does not fall back, the prompt is the text of
\* the user message alone; the reconstruction is what a list with no user
\* message is sent as.
C19_NoFallbackWithUser ==
  \A p \in Sent("sendMessage"):
    /\ UserThenAssistant(input.messages) => p = TextContent(input.messages[1].content)
    /\ (\A k \in 1..Len(input.messages): input.messages[k].role # "user") =>
         p = Join([k \in 1..Len(input.messages) |-> Tagged(input.messages[k])], "\n\n")

\* [user: "hi", assistant: "hello"] has been sent as "hi"
C19_Witness ==
  /\ input.fn = "chat" /\ input.pc = "done"
  /\ input.messages = <<[role |-> "user", content |-> Str("hi")],
                        [role |-> "assistant", content |-> Str("hello")]>>
  /\ Sent("sendMessage") = {"hi"}

\* the handler of caller c answers a request whose message list is missing
\* or empty
HandlesInvalid(c) ==
  /\ cl[c].pc = "http" /\ cl'[c] # cl[c]
  /\ (~cl[c].body.has \/ cl[c].body.len = 0)

\* C20: a request whose message list is missing or empty is answered with a
\* client error and nothing else happens: no pacing wait, no dispatch
\* record, no counter update, no connect, no send.
C20_InvalidRejectedFirst ==
  [][\A c \in Callers: HandlesInvalid(c) =>
       /\ cl'[c].pc = "idle" /\ cl'[c].res = "400"
       /\ UNCHANGED <<mgr, sdk, ghost>>]_vars

\* a request with an empty list was rejected while another call was being
\* served
C20_Witness ==
  \E c, d \in Callers:
    /\ cl[c].res = "400" /\ cl[c].pc = "idle"
    /\ cl[d].pc = "recv"
    /\ requestCount = 1 /\ nConn = 1

\* C21: a streaming response that has been started is eventually ended,
\* whatever happens to the backend exchange behind it.
C21_StreamEventuallyEnded ==
  \A c \in Callers: (cl[c].resp = "open") ~> (cl[c].resp = "ended")

\* the sequential caller's call has failed and nothing else runs
AfterFailure == cl[1].pc = "idle" /\ cl[1].res = "err"

\* Connected, or Disconnected, with nothing pending
Consistent ==
  /\ connecting = 0
  /\ InFlight = {}
  /\ client = 0 \/ conn[client] \in {"connected", Dead}

\* a call that has been made and has not yet issued its sendMessage
BeforeSend(c) == cl[c].pc \notin {"idle", "send", "recv"}

\* C22: after a failed call the manager is Connected or Disconnected with no
\* attempt marked in flight; a call made when the backend no longer fails
\* does not fail, and reaches its send (within the time modelled),
\* reconnecting if the connection is not live.
C22_RecoversAfterFailure ==
  /\ [](AfterFailure => Consistent)
  /\ [][(cl'[1].res = "err" /\ cl[1].res # "err") => faults' < faults]_vars
  /\ [][(cl'[1].pc = "cfg" /\ cl[1].pc # "cfg") => conn'[cl'[1].tgt] = "connected"]_vars
  /\ (BeforeSend(1) /\ faults = 0) ~> (cl[1].pc = "send" \/ now = horizon)

\* the first connection failed to connect, and the next call has connected a
\* second one and sent on it
C22_Witness ==
  /\ att[1] = "failed" /\ conn[1] = Dead
  /\ client = 2 /\ conn[2] = "connected"
  /\ cl[1].pc = "send" /\ cl[1].tgt = 2
  /\ cl[1].left = MAX_REQUESTS_PER_SESSION - 1

\* disconnect() is called in this step
DisconnectStep == sd'.left < sd.left

\* the fields of the manager other than the slot
mgrRest == <<connecting, lastRequestTime, requestCount, sessionCreateTime,
             sessionIdCounter, requestTimestamps>>

\* C23 as stated: disconnect() on a manager that is disconnected tears
\* nothing down and leaves all state unchanged.
C23_DisconnectIdempotent ==
  [][(DisconnectStep /\ Disconnected) => UNCHANGED <<mgr, sdk, cl>>]_vars

\* C23 amended: disconnect() on a manager that is disconnected tears nothing
\* down, returns at once and leaves all state unchanged, except that a slot
\* still holding a dead connection object is emptied; on an empty slot, as a
\* completed disconnect() leaves it, nothing at all changes.
C23_DisconnectIdempotentSlot ==
  [][(DisconnectStep /\ Disconnected) =>
       /\ UNCHANGED <<mgrRest, sdk, cl>>
       /\ client' = 0
       /\ sd'.pc = "idle"]_vars

\* a second disconnect() has returned, having found the slot as the first,
\* which tore down a connected object, left it
C23_Witness ==
  /\ sd.left = 0 /\ sd.pc = "idle" /\ sd.found = "empty"
  /\ nConn = 1 /\ att[1] = "ok" /\ conn[1] = Dead
  /\ client = 0

\* caller c's call enters the pacing gate in this step
EntersGate(c) == cl'[c].left < cl[c].left

\* the entries of a ledger that are less than the window old at n
Fresh(led, n) == {k \in 1..Len(led): n - led[k] < WINDOW_MS}

\* C24: the ceiling check reads a ledger holding only entries less than the
\* window old, and waits exactly when those reach the ceiling; the recent
\* count getStats returns counts exactly the entries less than the window old.
C24_ReadsSeeFreshOnly ==
  [][/\ \A c \in Callers: EntersGate(c) =>
          /\ Fresh(requestTimestamps', now) = 1..Len(requestTimestamps')
          /\ (cl'[c].pc = "ceilSleep") <=>
               (Cardinality(Fresh(requestTimestamps, now)) >= MAX_REQUESTS_PER_MINUTE)
     /\ StatsStep =>
          stats'.val.recentRequests = Cardinality(Fresh(requestTimestamps, now))]_vars

\* getStats() has read a ledger whose only entry had left the window
\* (recent 0 of 1), and a call has then entered the gate and dispatched:
\* the ledger holds that dispatch alone
C24_Witness ==
  /\ stats.any /\ stats.at = now
  /\ stats.val.totalRequests = 1 /\ stats.val.recentRequests = 0
  /\ requestCount = 2 /\ requestTimestamps = <<now>>

\* C25: once a rotation's teardown has completed, no connection is
\* constructed until the cooldown lower bound has elapsed since then.
C25_NoConnectInCooldown ==
  [][nConn' > nConn =>
       (rotLast.done # 0 => now - rotLast.done >= COOLDOWN_MIN)]_vars

\* caller c's call starts a rotation disconnect in this step
Rotates(c) == cl'[c].pc = "rotDisc" /\ cl[c].pc # "rotDisc"

\* C26: a rotation disconnect starts only when no other call is between its
\* send and the end of its receive drain.
C26_NoRotationMidExchange ==
  [][\A c, d \in Callers:
       (Rotates(c) /\ d # c) => cl[d].pc \notin {"send", "recv"}]_vars

\* C27: when a call sends its prompt, the model most recently set on the
\* backend it sends to is that call's own (alias-resolved) model.
C27_SendsUnderOwnModel ==
  [][\A c \in Callers: Sends(c) => configured[cl'[c].tgt] = cl[c].model]_vars

\* ensureConnected() returns successfully to caller c in this step: the call
\* goes on to its config.set
Returns(c) == cl'[c].pc = "cfg" /\ cl[c].pc # "cfg"

\* C28: ensureConnected returns successfully only when the attempt that made
\* the connection has completed, default-model configuration included and
\* the session recorded.
C28_ReturnsWhenEstablished ==
  [][\A c \in Callers: Returns(c) => att'[cl'[c].tgt] = "ok"]_vars

\* the slot stops referring to object o in this step
SlotDrops(o) == o # 0 /\ client = o /\ client' # o

\* a disconnect() of object o completes in this step: the pending teardown
\* resolves, or disconnect() is called on the dead object and returns
Released(o) ==
  /\ conn'[o] = Dead
  /\ conn[o] \in Closing \cup {Aborting} \/ DisconnectStep

\* C29: the slot stops referring to a connection object only as that
\* object's disconnect completes; no object leaves the slot without having
\* been disconnected.
C29_ReleasedWhenDropped ==
  [][\A o \in Conns: SlotDrops(o) => Released(o)]_vars

\* C30: the ledger is in non-decreasing order, so its first entry is its
\* oldest.
C30_LedgerChronological ==
  \A j, k \in 1..Len(requestTimestamps):
    j < k => requestTimestamps[j] <= requestTimestamps[k]

\* three dispatches of two callers are in the ledger, not all in one tick
C30_Witness ==
  /\ Len(requestTimestamps) = 3
  /\ requestTimestamps[1] < requestTimestamps[3]
  /\ cl[1].left = 0 /\ cl[2].left = 0
====
